---- MODULE Spec2Model ----
(***************************************************************************)
(* Model of the knowledge-base notebook's citation annotator               *)
(* (print_response) and of the notebook cells that invoke it.              *)
(*                                                                         *)
(* Python strings are modelled as sequences of one-character strings, so   *)
(* that slicing, concatenation, len() and the f-string formatting of       *)
(* integers are computed character by character.  A URI is copied verbatim *)
(* by the code and is kept as one opaque element of such a sequence.       *)
(***************************************************************************)
EXTENDS Integers, Sequences, FiniteSets

(* ---------------------------- bounds ----------------------------------- *)

MaxLen == 2            \* longest answer text
MaxCitations == 2      \* most citations in one response
MaxRefs == 2           \* most retrievedReferences in one citation
MaxCalls == 3          \* most invocations of print_response in one run
MaxToolCalls == 2      \* most tool calls an agent makes in one run
MaxEvents == 3         \* most events one completion stream delivers

(* ---------------------------- inputs ----------------------------------- *)

\* an answer is made of ordinary characters and of brackets of its own
Chars == {"a", "[", "]"}

Uris == {"s3://bucket/doc.pdf"}

\* two distinct sources, for the cells that tell references apart
CellUris == {"s3://bucket/doc.pdf", "s3://bucket/faq.pdf"}

\* a page-number attribute that is a float, given in tenths: Float(30) is 3.0
Float(t) == [kind |-> "float", tenths |-> t, text |-> <<>>]

\* a page-number attribute that is a string; tenths is the number it denotes
Str(s, t) == [kind |-> "str", tenths |-> t, text |-> s]

Pages == {Float(30)}

\* page-number attributes of either type, whole and fractional, of either sign
PageValues ==
    {Float(30), Float(35), Float(0 - 15),
     Str(<<"3">>, 30), Str(<<" ", "7">>, 70), Str(<<"-", "2">>, 0 - 20),
     Str(<<"3", ".", "0">>, 30), Str(<<"3", ".", "5">>, 35)}

SeqsUpTo(S, m) == UNION {[1..l -> S] : l \in 0..m}

Answers == SeqsUpTo(Chars, MaxLen)

References == [uri : Uris, page : Pages]

\* span ends range over 0..MaxLen: valid offsets of the longest answers, and
\* offsets past the end of the shorter ones
Citations == [end : 0..MaxLen,
              retrievedReferences : SeqsUpTo(References, MaxRefs)]

Responses == [text : Answers, citations : SeqsUpTo(Citations, MaxCitations)]

\* responses of the notebook run with several cells: one answer, citations
\* at one span end, references to either of two sources
CellResponses ==
    [text : {<<"a", "]">>},
     citations : SeqsUpTo([end : {1},
                           retrievedReferences :
                               SeqsUpTo([uri : CellUris, page : Pages], MaxRefs)],
                          MaxCitations)]

\* response of the notebook's follow-up query cells
FollowUps ==
    {[text |-> <<"a", "]">>,
      citations |-> <<[end |-> 1,
                       retrievedReferences |-> <<[uri |-> "s3://bucket/faq.pdf", page |-> Float(30)]>>]>>]}

\* the answer of the documented example: "Risk is important."
RiskText ==
    <<"R", "i", "s", "k", " ", "i", "s", " ",
      "i", "m", "p", "o", "r", "t", "a", "n", "t", ".">>

\* responses around the documented examples: that answer, citations at span
\* end 10 or 19, references to s3://bucket/doc.pdf page 3.0
ScenarioResponses ==
    [text : {RiskText},
     citations : SeqsUpTo([end : {10, 19},
                           retrievedReferences : SeqsUpTo(References, MaxRefs)],
                          MaxCitations)]

\* responses with one citation whose references carry page numbers of every
\* type the metadata may hold
PageResponses ==
    [text : {<<"a">>},
     citations : SeqsUpTo([end : {0},
                           retrievedReferences :
                               SeqsUpTo([uri : Uris, page : PageValues], MaxRefs)],
                          1)]

\* responses whose citations come in any order of their span ends: an answer
\* of three different characters (or none), span ends from 0 to one past its
\* length
OrderResponses ==
    [text : {<<"a", "b", "c">>, <<>>},
     citations : SeqsUpTo([end : 0..4,
                           retrievedReferences : SeqsUpTo(References, MaxRefs)],
                          MaxCitations)]

\* the invocations of print_response that run at the same time
Threads == {1, 2}

\* responses handed to those invocations: one citation, two citations with
\* decreasing span ends, a citation without reference
ThreadResponses ==
    {[text |-> <<"a", "b", "c">>,
      citations |-> <<[end |-> 1,
                       retrievedReferences |->
                           <<[uri |-> "s3://bucket/doc.pdf", page |-> Float(30)]>>]>>],
     [text |-> <<"a", "b", "c">>,
      citations |-> <<[end |-> 2,
                       retrievedReferences |->
                           <<[uri |-> "s3://bucket/doc.pdf", page |-> Float(30)],
                             [uri |-> "s3://bucket/faq.pdf", page |-> Float(35)]>>],
                      [end |-> 1,
                       retrievedReferences |->
                           <<[uri |-> "s3://bucket/faq.pdf", page |-> Float(30)]>>]>>],
     [text |-> <<"a">>,
      citations |-> <<[end |-> 0, retrievedReferences |-> <<>>]>>]}

\* sampling arguments a model may pass to the data tools
Samplings == {"daily", "weekly", "monthly", "quarterly", "yearly", "hourly"}

\* what a child process can leave behind: exit status, stdout and stderr
ChildOutcomes ==
    [exit : {0, 1}, stdout : {"", "42\n"}, stderr : {"", "Traceback"}]

(* ------------------------ Python primitives ---------------------------- *)

DigitChars == <<"0", "1", "2", "3", "4", "5", "6", "7", "8", "9">>

RECURSIVE NatStr(_)
\* str(n) for n >= 0
NatStr(n) ==
    IF n < 10 THEN <<DigitChars[n + 1]>>
    ELSE NatStr(n \div 10) \o <<DigitChars[(n % 10) + 1]>>

\* str(n) for any integer
IntStr(n) == IF n < 0 THEN <<"-">> \o NatStr(0 - n) ELSE NatStr(n)

\* int(x) of a float given in tenths: truncation toward zero
PyInt(p) == IF p >= 0 THEN p \div 10 ELSE 0 - ((0 - p) \div 10)

RECURSIVE Strip(_)
\* s.strip() for blanks
Strip(s) ==
    IF s = <<>> THEN s
    ELSE IF Head(s) = " " THEN Strip(Tail(s))
    ELSE IF s[Len(s)] = " " THEN Strip(SubSeq(s, 1, Len(s) - 1))
    ELSE s

RECURSIVE DigitsValue(_)
\* the value of a run of decimal digits, -1 if ds is empty or holds another
\* character
DigitsValue(ds) ==
    IF ds = <<>> THEN 0 - 1
    ELSE LET last == ds[Len(ds)]
             d == IF \E v \in 1..10 : DigitChars[v] = last
                  THEN (CHOOSE v \in 1..10 : DigitChars[v] = last) - 1
                  ELSE 0 - 1
             front == IF Len(ds) = 1 THEN 0 ELSE DigitsValue(SubSeq(ds, 1, Len(ds) - 1))
         IN IF d < 0 \/ front < 0 THEN 0 - 1 ELSE 10 * front + d

\* int(s) of a string: blanks stripped, an optional sign, then digits only;
\* anything else (a decimal point included) is a ValueError
IntOfStr(s) ==
    LET t == Strip(s)
        signed == t # <<>> /\ t[1] \in {"+", "-"}
        v == DigitsValue(IF signed THEN Tail(t) ELSE t)
    IN IF v < 0 THEN [ok |-> FALSE, value |-> 0]
       ELSE [ok |-> TRUE, value |-> IF signed /\ t[1] = "-" THEN 0 - v ELSE v]

\* int(x) of a string truncates its fraction as int(float(x)) would
IntOf_ParsesFloats(x) == [ok |-> TRUE, value |-> PyInt(x.tenths)]

\* int(x) of a page-number attribute: its value, or ok = FALSE for ValueError
IntOf(x) ==
    IF x.kind = "float" THEN [ok |-> TRUE, value |-> PyInt(x.tenths)]
    ELSE IntOfStr(x.text)

\* a bound past the end is clamped to the last index instead of the length
ClampIndex_LastIndex(i, len) ==
    IF i < 0 THEN (IF i + len < 0 THEN 0 ELSE i + len)
    ELSE IF i > len THEN (IF len > 0 THEN len - 1 ELSE 0) ELSE i

\* a slice bound i normalised against a string of length len
ClampIndex(i, len) ==
    IF i < 0 THEN (IF i + len < 0 THEN 0 ELSE i + len)
    ELSE IF i > len THEN len ELSE i

\* s[:i]
SliceTo(s, i) == SubSeq(s, 1, ClampIndex(i, Len(s)))

\* s[i:]
SliceFrom(s, i) == SubSeq(s, ClampIndex(i, Len(s)) + 1, Len(s))

RECURSIVE Join(_, _)
\* sep.join(lines)
Join(sep, lines) ==
    IF lines = <<>> THEN <<>>
    ELSE IF Len(lines) = 1 THEN lines[1]
    ELSE lines[1] \o sep \o Join(sep, Tail(lines))

(* --------------------- print_response, by statement -------------------- *)

\* the line is formatted from the counter as it was before its increment
ReferenceLine_BeforeIncrement(num, ref_location, ref_page_number) ==
    <<"[">> \o NatStr(num - 1) \o <<"]", ":", " ", ref_location, " ", "(", "p", "a", "g", "e", " ">>
        \o IntStr(IntOf(ref_page_number).value) \o <<")">>

\* f"[{ref_number}]: {ref_location} (page {int(ref_page_number)})"
ReferenceLine(num, ref_location, ref_page_number) ==
    <<"[">> \o NatStr(num) \o <<"]", ":", " ", ref_location, " ", "(", "p", "a", "g", "e", " ">>
        \o IntStr(IntOf(ref_page_number).value) \o <<")">>

\* the marker lists the enumerate index n + 1 instead of ref_number
AppendNumber_EnumerateIndex(str, idx, num) ==
    IF idx = 0 THEN str \o NatStr(idx + 1)
    ELSE str \o <<",", " ">> \o NatStr(idx + 1)

\* the numbers of a marker are separated by a comma without the blank
AppendNumber_NoBlank(str, idx, num) ==
    IF idx = 0 THEN str \o NatStr(num)
    ELSE str \o <<",">> \o NatStr(num)

\* citation_string += f"{ref_number}"  /  f", {ref_number}"
AppendNumber(str, idx, num) ==
    IF idx = 0 THEN str \o NatStr(num)
    ELSE str \o <<",", " ">> \o NatStr(num)

\* the tail is taken one character too late: output[at + 1:]
SpliceAt_DropsChar(out, at, marker) == SliceTo(out, at) \o marker \o SliceFrom(out, at + 1)

\* a citation without references is skipped instead of spliced as []
SpliceAt_SkipsEmpty(out, at, marker) ==
    IF Len(marker) = 2 THEN out ELSE SliceTo(out, at) \o marker \o SliceFrom(out, at)

\* output[:at] + citation_string + output[at:]
SpliceAt(out, at, marker) == SliceTo(out, at) \o marker \o SliceFrom(out, at)

VARIABLES
    response,         \* argument of the running (or last) call
    pc,               \* position inside print_response
    ref_number, ref_offset, output, references,
    citation_i,       \* how many citations the outer loop has taken
    citation_end, citation_string,
    n,                \* how many references the inner loop has taken
    console,          \* everything handed to rprint, in order
    retval,           \* value returned by the last call that returned
    inputs,           \* arguments of the calls that returned, in order
    splices,          \* per citation spliced by the running call: the index
                      \* computed on line 205, len(output) before the splice
                      \* and the marker (citation_string) spliced in
    tool_calls,       \* calls of the data tools that ended, in order
    run,              \* frame of the running run_python_code call
    tmp_files,        \* names of the temporary files that exist
    code_runs,        \* calls of run_python_code that ended, in order
    frames,           \* locals of the print_response calls that run in threads
    event_stream,     \* events the completion stream of invoke_agent delivers
    event_i,          \* how many of them the loop has taken
    trace_events, agent_answer, end_event_received,
    agent_pc,         \* position inside the cell that consumes the stream
    agent_exc,        \* exception that left that cell
    session_id,       \* the notebook's global session_id
    requests,         \* parameters of the retrieve_and_generate calls, in order
    kb_responses      \* what retrieve_and_generate returned to them, in order

vars == <<response, pc, ref_number, ref_offset, output, references,
          citation_i, citation_end, citation_string, n, console, retval, inputs,
          splices, tool_calls, run, tmp_files, code_runs, frames,
          event_stream, event_i, trace_events, agent_answer, end_event_received,
          agent_pc, agent_exc, session_id, requests, kb_responses>>

\* the state of print_response and of the cells that call it
annotatorVars == <<response, pc, ref_number, ref_offset, output, references,
                   citation_i, citation_end, citation_string, n, console, retval,
                   inputs, splices>>

\* the state of the agents' tools
toolVars == <<tool_calls, run, tmp_files, code_runs>>

\* the calls of print_response that run in threads
threadVars == <<frames>>

\* the cell that invokes the agent and consumes its completion stream
agentVars == <<event_stream, event_i, trace_events, agent_answer,
               end_event_received, agent_pc, agent_exc>>

\* the cells that query the knowledge base
queryVars == <<session_id, requests, kb_responses>>

\* the state of those other cells
cellVars == <<threadVars, agentVars, queryVars>>

\* a name that is not bound yet
Unbound == "unbound"

\* the frame of an invocation that has not been called yet
IdleFrame ==
    [response |-> [text |-> <<>>, citations |-> <<>>],
     pc |-> "idle",
     ref_number |-> 0, ref_offset |-> 0, output |-> <<>>, references |-> <<>>,
     citation_i |-> 0, citation_end |-> 0, citation_string |-> <<>>, n |-> 0,
     reference_str |-> <<>>]

\* none of those cells has run
CellsIdle ==
    /\ frames = [t \in Threads |-> IdleFrame]
    /\ event_stream = <<>>
    /\ event_i = 0
    /\ trace_events = <<>>
    /\ agent_answer = Unbound
    /\ end_event_received = Unbound
    /\ agent_pc = "idle"
    /\ agent_exc = Unbound
    /\ session_id = Unbound
    /\ requests = <<>>
    /\ kb_responses = <<>>

\* no run_python_code call is running
NoOutcome == [exit |-> 0 - 1, stdout |-> "", stderr |-> ""]

NoRun == [pc |-> "idle", name |-> 0,
          pending |-> [kind |-> "None", value |-> "", outcome |-> NoOutcome]]

ToolsIdle ==
    /\ tool_calls = <<>>
    /\ run = NoRun
    /\ tmp_files = {}
    /\ code_runs = <<>>

\* Python's None, written as a value that compares with the tuples a call
\* could return
None == <<"None">>

\* locals that exist only inside the loops
loopLocals == <<citation_i, citation_end, citation_string, n>>

InitWith(R) ==
    /\ response \in R
    /\ pc = "call"
    /\ ref_number = 0
    /\ ref_offset = 0
    /\ output = <<>>
    /\ references = <<>>
    /\ citation_i = 0
    /\ citation_end = 0
    /\ citation_string = <<>>
    /\ n = 0
    /\ console = <<>>
    /\ retval = None
    /\ inputs = <<>>
    /\ splices = <<>>
    /\ ToolsIdle
    /\ CellsIdle

Init == InitWith(Responses)

\* the first splice point is the span end itself
RefOffsetInit_Zero == 1 - 1

\* line 182
RefOffsetInit == 1

\* the offset advances by one per citation instead of by the marker's length
AdvanceOffset_ByOne(off, marker) == off + 1

\* line 206: ref_offset += len(citation_string)
AdvanceOffset(off, marker) == off + Len(marker)

\* ref_number lives outside the function and is not set back to 0
Begin_StaleCounter ==
    /\ pc = "call"
    /\ ref_number' = ref_number
    /\ ref_offset' = RefOffsetInit
    /\ output' = response.text
    /\ references' = <<>>
    /\ citation_i' = 0
    /\ splices' = <<>>
    /\ pc' = "for_citation"
    /\ UNCHANGED <<response, citation_end, citation_string, n, console, retval, inputs>>
    /\ UNCHANGED toolVars
    /\ UNCHANGED cellVars

\* lines 181-184
Begin ==
    /\ pc = "call"
    /\ ref_number' = 0
    /\ ref_offset' = RefOffsetInit
    /\ output' = response.text
    /\ references' = <<>>
    /\ citation_i' = 0
    /\ splices' = <<>>
    /\ pc' = "for_citation"
    /\ UNCHANGED <<response, citation_end, citation_string, n, console, retval, inputs>>
    /\ UNCHANGED toolVars
    /\ UNCHANGED cellVars

\* the loop walks the citations by increasing span end
NthCitation_SortedByEnd(cits, i) ==
    cits[CHOOSE p \in DOMAIN cits :
             Cardinality({q \in DOMAIN cits :
                             \/ cits[q].end < cits[p].end
                             \/ (cits[q].end = cits[p].end /\ q < p)}) = i - 1]

\* line 186: the i-th citation that "for citation in response[...]" yields
NthCitation(cits, i) == cits[i]

\* lines 186-190: the outer loop takes the next citation
NextCitation ==
    /\ pc = "for_citation"
    /\ citation_i < Len(response.citations)
    /\ citation_i' = citation_i + 1
    /\ citation_end' = NthCitation(response.citations, citation_i + 1).end
    /\ citation_string' = <<"[">>
    /\ n' = 0
    /\ pc' = "for_reference"
    /\ UNCHANGED <<response, ref_number, ref_offset, output, references, console, retval,
                   inputs, splices>>
    /\ UNCHANGED toolVars
    /\ UNCHANGED cellVars

\* the citation the loops are working on
citation == NthCitation(response.citations, citation_i)

\* a reference to the source just listed repeats its number and adds no line
NextReference_ReusesNumber ==
    /\ pc = "for_reference"
    /\ n < Len(citation.retrievedReferences)
    /\ LET reference == citation.retrievedReferences[n + 1]
           known == n > 0 /\ citation.retrievedReferences[n] = reference
       IN IF known
          THEN /\ citation_string' = AppendNumber(citation_string, n, ref_number)
               /\ UNCHANGED <<ref_number, references>>
          ELSE /\ ref_number' = ref_number + 1
               /\ references' = Append(references,
                                       ReferenceLine(ref_number + 1, reference.uri,
                                                     reference.page))
               /\ citation_string' = AppendNumber(citation_string, n, ref_number + 1)
    /\ n' = n + 1
    /\ UNCHANGED <<response, pc, ref_offset, output, citation_i, citation_end,
                   console, retval, inputs, splices>>
    /\ UNCHANGED toolVars
    /\ UNCHANGED cellVars

\* lines 192-201: the inner loop takes the next reference; when int() of its
\* page number raises ValueError (line 196, after the increment of line 195)
\* the exception leaves print_response
NextReference ==
    /\ pc = "for_reference"
    /\ n < Len(citation.retrievedReferences)
    /\ LET reference == citation.retrievedReferences[n + 1]
       IN /\ ref_number' = ref_number + 1
          /\ IF IntOf(reference.page).ok
             THEN /\ references' = Append(references,
                                          ReferenceLine(ref_number + 1, reference.uri,
                                                        reference.page))
                  /\ citation_string' = AppendNumber(citation_string, n, ref_number + 1)
                  /\ n' = n + 1
                  /\ pc' = pc
             ELSE /\ pc' = "raised"
                  /\ UNCHANGED <<references, citation_string, n>>
    /\ UNCHANGED <<response, ref_offset, output, citation_i, citation_end,
                   console, retval, inputs, splices>>
    /\ UNCHANGED toolVars
    /\ UNCHANGED cellVars

\* lines 203-206: the inner loop is exhausted; close the marker and splice it
Splice ==
    /\ pc = "for_reference"
    /\ n >= Len(citation.retrievedReferences)
    /\ LET marker == citation_string \o <<"]">>
       IN /\ citation_string' = marker
          /\ output' = SpliceAt(output, citation_end + ref_offset, marker)
          /\ ref_offset' = AdvanceOffset(ref_offset, marker)
          /\ splices' = Append(splices, [at |-> citation_end + ref_offset,
                                         len |-> Len(output),
                                         marker |-> marker])
    /\ pc' = "for_citation"
    /\ UNCHANGED <<response, ref_number, references, citation_i, citation_end, n,
                   console, retval, inputs>>
    /\ UNCHANGED toolVars
    /\ UNCHANGED cellVars

\* both results are returned to the caller and nothing is displayed
ShowAndReturn_ReturnsResults ==
    /\ pc = "for_citation"
    /\ citation_i >= Len(response.citations)
    /\ console' = console
    /\ retval' = <<output, references>>
    /\ inputs' = Append(inputs, response)
    /\ pc' = "returned"
    /\ UNCHANGED <<response, ref_number, ref_offset, output, references, loopLocals,
                   splices>>
    /\ UNCHANGED toolVars
    /\ UNCHANGED cellVars

\* lines 208-210: the outer loop is exhausted; print both results and return
ShowAndReturn ==
    /\ pc = "for_citation"
    /\ citation_i >= Len(response.citations)
    /\ LET reference_str == Join(<<"\n">>, references)
       IN console' = console \o <<output, reference_str>>
    /\ retval' = None
    /\ inputs' = Append(inputs, response)
    /\ pc' = "returned"
    /\ UNCHANGED <<response, ref_number, ref_offset, output, references, loopLocals,
                   splices>>
    /\ UNCHANGED toolVars
    /\ UNCHANGED cellVars

\* a notebook cell calls print_response again: on a response already shown (the
\* cell is run again) or on the response of a follow-up query (lines 220-249).
\* The loop locals of the finished call are gone with its frame.
NextCell ==
    /\ pc = "returned"
    /\ Len(inputs) < MaxCalls
    /\ response' \in {inputs[c] : c \in DOMAIN inputs} \cup FollowUps
    /\ pc' = "call"
    /\ citation_i' = 0
    /\ citation_end' = 0
    /\ citation_string' = <<>>
    /\ n' = 0
    /\ UNCHANGED <<ref_number, ref_offset, output, references, console, retval, inputs,
                   splices>>
    /\ UNCHANGED toolVars
    /\ UNCHANGED cellVars

\* one call of print_response, on any response
Next ==
    \/ Begin
    \/ NextCitation
    \/ NextReference
    \/ Splice
    \/ ShowAndReturn

Spec == Init /\ [][Next]_vars

\* the notebook's query cells: several calls, one after the other
InitCells == InitWith(CellResponses)

NextCells ==
    \/ Begin
    \/ NextCitation
    \/ NextReference
    \/ Splice
    \/ ShowAndReturn
    \/ NextCell

SpecCells == InitCells /\ [][NextCells]_vars

\* one call on a response around the documented examples
InitScenario == InitWith(ScenarioResponses)

SpecScenario == InitScenario /\ [][Next]_vars

\* one call on a response whose page numbers are floats or strings
InitPages == InitWith(PageResponses)

SpecPages == InitPages /\ [][Next]_vars

\* one call on a response whose citations come in any order
InitOrder == InitWith(OrderResponses)

SpecOrder == InitOrder /\ [][Next]_vars

(* ------------------- the data tools of the agent ----------------------- *)

\* get_ticker_data: the branch its sampling argument takes
TickerResample(sampling) ==
    CASE sampling = "weekly" -> [rule |-> "W-SAT", raised |-> "None"]
      [] sampling = "monthly" -> [rule |-> "ME", raised |-> "None"]
      [] sampling = "quarterly" -> [rule |-> "QE", raised |-> "None"]
      [] sampling = "daily" -> [rule |-> "None", raised |-> "None"]
      [] OTHER -> [rule |-> "None", raised |-> "ValueError"]

\* the branches of get_ticker_data copied into get_fred_data
FredResample_TickerBranches(sampling) ==
    CASE sampling = "weekly" -> [rule |-> "W-SAT", raised |-> "None"]
      [] sampling = "monthly" -> [rule |-> "ME", raised |-> "None"]
      [] sampling = "quarterly" -> [rule |-> "QE", raised |-> "None"]
      [] sampling = "daily" -> [rule |-> "None", raised |-> "None"]
      [] OTHER -> [rule |-> "None", raised |-> "ValueError"]

\* get_fred_data: the branch its sampling argument takes
FredResample(sampling) ==
    CASE sampling = "monthly" -> [rule |-> "ME", raised |-> "None"]
      [] sampling = "quarterly" -> [rule |-> "QE", raised |-> "None"]
      [] sampling = "yearly" -> [rule |-> "YE", raised |-> "None"]
      [] OTHER -> [rule |-> "None", raised |-> "ValueError"]

\* the agent calls get_ticker_data; the call returns its dictionary of records
\* or raises
GetTickerData ==
    /\ Len(tool_calls) < MaxToolCalls
    /\ \E sampling \in Samplings :
           LET branch == TickerResample(sampling)
           IN tool_calls' = Append(tool_calls,
                                   [tool |-> "get_ticker_data",
                                    sampling |-> sampling,
                                    rule |-> branch.rule,
                                    raised |-> branch.raised,
                                    returned |-> IF branch.raised = "None"
                                                 THEN "dict of records" ELSE "None"])
    /\ UNCHANGED <<run, tmp_files, code_runs>>
    /\ UNCHANGED annotatorVars
    /\ UNCHANGED cellVars

\* the agent calls get_fred_data; the call returns its list of records or raises
GetFredData ==
    /\ Len(tool_calls) < MaxToolCalls
    /\ \E sampling \in Samplings :
           LET branch == FredResample(sampling)
           IN tool_calls' = Append(tool_calls,
                                   [tool |-> "get_fred_data",
                                    sampling |-> sampling,
                                    rule |-> branch.rule,
                                    raised |-> branch.raised,
                                    returned |-> IF branch.raised = "None"
                                                 THEN "list of records" ELSE "None"])
    /\ UNCHANGED <<run, tmp_files, code_runs>>
    /\ UNCHANGED annotatorVars
    /\ UNCHANGED cellVars

InitTools == InitWith(FollowUps)

NextTools ==
    \/ GetTickerData
    \/ GetFredData

SpecTools == InitTools /\ [][NextTools]_vars

(* --------------------------- run_python_code --------------------------- *)

\* the call returns the child's stdout whatever its exit status
RunResult_AlwaysStdout(outcome) == outcome.stdout

\* what the call returns once subprocess.run has ended: result.stdout, or
\* e.stderr when check=True raised CalledProcessError
RunResult(outcome) == IF outcome.exit = 0 THEN outcome.stdout ELSE outcome.stderr

\* NamedTemporaryFile(delete=False), f.write(code), f.close()
RunCreate ==
    /\ run.pc = "idle"
    /\ Len(code_runs) < MaxToolCalls
    /\ LET name == Len(code_runs) + 1
       IN /\ run' = [NoRun EXCEPT !.pc = "try", !.name = name]
          /\ tmp_files' = tmp_files \cup {name}
    /\ UNCHANGED <<tool_calls, code_runs>>
    /\ UNCHANGED annotatorVars
    /\ UNCHANGED cellVars

\* subprocess.run(..., check=True) ends: the child exited, with status zero or
\* not, or the child could not be run at all (OSError)
RunSubprocess ==
    /\ run.pc = "try"
    /\ \/ \E outcome \in ChildOutcomes :
             run' = [run EXCEPT !.pc = "finally",
                                !.pending = [kind |-> "return",
                                             value |-> RunResult(outcome),
                                             outcome |-> outcome]]
       \/ run' = [run EXCEPT !.pc = "finally",
                              !.pending = [kind |-> "raise", value |-> "OSError",
                                           outcome |-> NoOutcome]]
    /\ UNCHANGED <<tool_calls, tmp_files, code_runs>>
    /\ UNCHANGED annotatorVars
    /\ UNCHANGED cellVars

\* the file is removed on the paths that return, not when an exception other
\* than CalledProcessError leaves the call
RunFinally_RemovesOnReturn ==
    /\ run.pc = "finally"
    /\ tmp_files' = IF run.pending.kind = "return" THEN tmp_files \ {run.name}
                                                   ELSE tmp_files
    /\ code_runs' = Append(code_runs, run.pending)
    /\ run' = NoRun
    /\ UNCHANGED tool_calls
    /\ UNCHANGED annotatorVars
    /\ UNCHANGED cellVars

\* finally: os.remove(f.name); then the pending return or exception leaves
\* the call
RunFinally ==
    /\ run.pc = "finally"
    /\ tmp_files' = tmp_files \ {run.name}
    /\ code_runs' = Append(code_runs, run.pending)
    /\ run' = NoRun
    /\ UNCHANGED tool_calls
    /\ UNCHANGED annotatorVars
    /\ UNCHANGED cellVars

NextConverse ==
    \/ RunCreate
    \/ RunSubprocess
    \/ RunFinally

SpecConverse == InitTools /\ [][NextConverse]_vars

(* ------------- print_response called from several threads ------------- *)

\* one step of print_response on the locals f of one call: the steps are
\* those of Begin, NextCitation, NextReference, Splice and ShowAndReturn, the
\* last one taken apart into the join of line 208 and the two rprint calls
FrameStep(f) ==
    LET cits == f.response.citations
        cit == NthCitation(cits, f.citation_i)
    IN CASE f.pc = "call" ->
                [f EXCEPT !.ref_number = 0,
                          !.ref_offset = RefOffsetInit,
                          !.output = f.response.text,
                          !.references = <<>>,
                          !.citation_i = 0,
                          !.pc = "for_citation"]
         [] f.pc = "for_citation" /\ f.citation_i < Len(cits) ->
                [f EXCEPT !.citation_i = f.citation_i + 1,
                          !.citation_end = NthCitation(cits, f.citation_i + 1).end,
                          !.citation_string = <<"[">>,
                          !.n = 0,
                          !.pc = "for_reference"]
         [] f.pc = "for_citation" /\ f.citation_i >= Len(cits) ->
                [f EXCEPT !.reference_str = Join(<<"\n">>, f.references),
                          !.pc = "rprint_output"]
         [] f.pc = "for_reference" /\ f.n < Len(cit.retrievedReferences) ->
                LET reference == cit.retrievedReferences[f.n + 1]
                IN IF IntOf(reference.page).ok
                   THEN [f EXCEPT !.ref_number = f.ref_number + 1,
                                  !.references =
                                      Append(f.references,
                                             ReferenceLine(f.ref_number + 1,
                                                           reference.uri,
                                                           reference.page)),
                                  !.citation_string =
                                      AppendNumber(f.citation_string, f.n,
                                                   f.ref_number + 1),
                                  !.n = f.n + 1]
                   ELSE [f EXCEPT !.ref_number = f.ref_number + 1,
                                  !.pc = "raised"]
         [] f.pc = "for_reference" /\ f.n >= Len(cit.retrievedReferences) ->
                LET marker == f.citation_string \o <<"]">>
                IN [f EXCEPT !.citation_string = marker,
                             !.output = SpliceAt(f.output,
                                                 f.citation_end + f.ref_offset,
                                                 marker),
                             !.ref_offset = AdvanceOffset(f.ref_offset, marker),
                             !.pc = "for_citation"]
         [] f.pc = "rprint_output" -> [f EXCEPT !.pc = "rprint_refs"]
         [] f.pc = "rprint_refs" -> [f EXCEPT !.pc = "returned"]
         [] OTHER -> f

\* what a step on the locals f hands to rprint (lines 209 and 210)
Shown(f) ==
    CASE f.pc = "rprint_output" -> <<f.output>>
      [] f.pc = "rprint_refs" -> <<f.reference_str>>
      [] OTHER -> <<>>

\* ref_number is one name for all invocations: each reads the counter of the
\* first invocation
Locals_SharedCounter(t) == [frames[t] EXCEPT !.ref_number = frames[1].ref_number]

\* the names of print_response are bound in the frame of the call
Locals(t) == frames[t]

\* a thread calls print_response(response)
ThreadCall(t) ==
    /\ frames[t].pc = "idle"
    /\ \E r \in ThreadResponses :
           frames' = [frames EXCEPT ![t] = [IdleFrame EXCEPT !.response = r,
                                                             !.pc = "call"]]
    /\ UNCHANGED annotatorVars
    /\ UNCHANGED <<toolVars, agentVars, queryVars>>

\* a thread takes its next step while the others wait
ThreadStep(t) ==
    /\ frames[t].pc \notin {"idle", "returned", "raised"}
    /\ frames' = [frames EXCEPT ![t] = FrameStep(Locals(t))]
    /\ console' = console \o Shown(Locals(t))
    /\ UNCHANGED <<response, pc, ref_number, ref_offset, output, references,
                   citation_i, citation_end, citation_string, n, retval, inputs,
                   splices>>
    /\ UNCHANGED <<toolVars, agentVars, queryVars>>

NextThreads ==
    \/ \E t \in Threads : ThreadCall(t)
    \/ \E t \in Threads : ThreadStep(t)

SpecThreads == InitTools /\ [][NextThreads]_vars

(* ---------------- the cell that invokes the agent ---------------------- *)

\* what the completion stream can deliver: an event is a dictionary with one
\* member of the response stream set (a chunk of bytes, a trace, or another
\* member such as returnControl); a delivery can also fail, and then the
\* iteration raises instead of yielding an event
Events ==
    {[chunk |-> [bytes |-> <<72, 105>>]],
     [chunk |-> [bytes |-> <<72, 255>>]],
     [trace |-> "orchestrationTrace"],
     [trace |-> "postProcessingTrace"],
     [returnControl |-> "invocationInputs"]}

StreamError == [streamError |-> "EventStreamError"]

Deliveries == Events \cup {StreamError}

Streams == SeqsUpTo(Deliveries, MaxEvents)

\* 'key' in event
HasKey(event, key) == key \in DOMAIN event

\* the characters of the bytes below 128
Ascii(b) == CASE b = 72 -> "H" [] b = 105 -> "i" [] OTHER -> "?"

\* data.decode('utf8'): bytes below 128 decode to their characters; a byte
\* from 128 on that starts no valid sequence raises UnicodeDecodeError
Utf8Decode(bytes) ==
    IF \A k \in DOMAIN bytes : bytes[k] < 128
    THEN [ok |-> TRUE, text |-> [k \in DOMAIN bytes |-> Ascii(bytes[k])]]
    ELSE [ok |-> FALSE, text |-> <<>>]

\* the exception that leaves the cell (line 387): Exception("unexpected
\* event.", e), e being the exception caught on line 386
Reraised(type, args) ==
    [type |-> "Exception",
     args |-> <<"unexpected event.", [type |-> type, args |-> args]>>]

\* lines 362-372: invoke_agent returns, the cell takes its completion stream
\* and starts with no trace
InvokeAgent ==
    /\ agent_pc = "idle"
    /\ event_stream' \in Streams
    /\ event_i' = 0
    /\ trace_events' = <<>>
    /\ agent_pc' = "for"
    /\ UNCHANGED <<agent_answer, end_event_received, agent_exc>>
    /\ UNCHANGED <<annotatorVars, toolVars, threadVars, queryVars>>

\* the event the for statement of line 374 is about to take
event == event_stream[event_i + 1]

\* line 374, the stream fails to deliver: the iteration raises, line 386
\* catches the exception and line 387 raises the one that leaves the cell
StreamRaises ==
    /\ agent_pc = "for"
    /\ event_i < Len(event_stream)
    /\ event = StreamError
    /\ event_i' = event_i + 1
    /\ agent_exc' = Reraised("EventStreamError", <<>>)
    /\ agent_pc' = "raised"
    /\ UNCHANGED <<event_stream, trace_events, agent_answer, end_event_received>>
    /\ UNCHANGED <<annotatorVars, toolVars, threadVars, queryVars>>

\* lines 375-379: an event with a chunk; decoding bytes that are not UTF-8
\* raises on line 377, before anything is assigned
ChunkEvent ==
    /\ agent_pc = "for"
    /\ event_i < Len(event_stream)
    /\ event # StreamError
    /\ HasKey(event, "chunk")
    /\ event_i' = event_i + 1
    /\ LET data == event.chunk.bytes
       IN IF Utf8Decode(data).ok
          THEN /\ agent_answer' = Utf8Decode(data).text
               /\ end_event_received' = TRUE
               /\ UNCHANGED <<agent_pc, agent_exc>>
          ELSE /\ agent_exc' = Reraised("UnicodeDecodeError", <<>>)
               /\ agent_pc' = "raised"
               /\ UNCHANGED <<agent_answer, end_event_received>>
    /\ UNCHANGED <<event_stream, trace_events>>
    /\ UNCHANGED <<annotatorVars, toolVars, threadVars, queryVars>>

\* the trace of an event is put in front of the list
TraceEvent_Prepends ==
    /\ agent_pc = "for"
    /\ event_i < Len(event_stream)
    /\ event # StreamError
    /\ ~HasKey(event, "chunk")
    /\ HasKey(event, "trace")
    /\ event_i' = event_i + 1
    /\ trace_events' = <<event.trace>> \o trace_events
    /\ UNCHANGED <<event_stream, agent_answer, end_event_received, agent_pc, agent_exc>>
    /\ UNCHANGED <<annotatorVars, toolVars, threadVars, queryVars>>

\* lines 381-383: an event with a trace and no chunk
TraceEvent ==
    /\ agent_pc = "for"
    /\ event_i < Len(event_stream)
    /\ event # StreamError
    /\ ~HasKey(event, "chunk")
    /\ HasKey(event, "trace")
    /\ event_i' = event_i + 1
    /\ trace_events' = Append(trace_events, event.trace)
    /\ UNCHANGED <<event_stream, agent_answer, end_event_received, agent_pc, agent_exc>>
    /\ UNCHANGED <<annotatorVars, toolVars, threadVars, queryVars>>

\* an event with neither key is skipped and the loop goes on
UnexpectedEvent_Skips ==
    /\ agent_pc = "for"
    /\ event_i < Len(event_stream)
    /\ event # StreamError
    /\ ~HasKey(event, "chunk")
    /\ ~HasKey(event, "trace")
    /\ event_i' = event_i + 1
    /\ UNCHANGED <<event_stream, trace_events, agent_answer, end_event_received,
                   agent_pc, agent_exc>>
    /\ UNCHANGED <<annotatorVars, toolVars, threadVars, queryVars>>

\* lines 384-387: an event with neither key; line 385 raises
\* Exception("unexpected event.", event), line 386 catches it and line 387
\* raises the exception that leaves the cell
UnexpectedEvent ==
    /\ agent_pc = "for"
    /\ event_i < Len(event_stream)
    /\ event # StreamError
    /\ ~HasKey(event, "chunk")
    /\ ~HasKey(event, "trace")
    /\ event_i' = event_i + 1
    /\ agent_exc' = Reraised("Exception", <<"unexpected event.", event>>)
    /\ agent_pc' = "raised"
    /\ UNCHANGED <<event_stream, trace_events, agent_answer, end_event_received>>
    /\ UNCHANGED <<annotatorVars, toolVars, threadVars, queryVars>>

\* line 374: the stream is exhausted and the cell ends
EndOfStream ==
    /\ agent_pc = "for"
    /\ event_i >= Len(event_stream)
    /\ agent_pc' = "done"
    /\ UNCHANGED <<event_stream, event_i, trace_events, agent_answer,
                   end_event_received, agent_exc>>
    /\ UNCHANGED <<annotatorVars, toolVars, threadVars, queryVars>>

NextAgent ==
    \/ InvokeAgent
    \/ StreamRaises
    \/ ChunkEvent
    \/ TraceEvent
    \/ UnexpectedEvent
    \/ EndOfStream

SpecAgent == InitTools /\ [][NextAgent]_vars

(* --------------- the cells that query the knowledge base --------------- *)

\* session identifiers the service hands out
SessionIds == {<<"s", "1">>, <<"s", "2">>, <<"s", "3">>}

\* the questions of the follow-up cells
FollowUpTexts == {"example risks of a credit risk model", "a fraud detection model"}

\* what the service answers
KbAnswers == {<<"a">>, <<"a", "]">>}

\* the request carries the session whatever the argument is
QueryParams_AlwaysSession(kb_id, query_text, sid) ==
    [input |-> [text |-> query_text],
     retrieveAndGenerateConfiguration |->
         [type |-> "KNOWLEDGE_BASE",
          knowledgeBaseConfiguration |-> [knowledgeBaseId |-> kb_id,
                                          modelArn |-> "foundation-model"]],
     sessionId |-> sid]

\* lines 162-173: the parameters query_knowledge_base passes to
\* retrieve_and_generate
QueryParams(kb_id, query_text, sid) ==
    IF sid # None
    THEN [input |-> [text |-> query_text],
          retrieveAndGenerateConfiguration |->
              [type |-> "KNOWLEDGE_BASE",
               knowledgeBaseConfiguration |-> [knowledgeBaseId |-> kb_id,
                                               modelArn |-> "foundation-model"]],
          sessionId |-> sid]
    ELSE [input |-> [text |-> query_text],
          retrieveAndGenerateConfiguration |->
              [type |-> "KNOWLEDGE_BASE",
               knowledgeBaseConfiguration |-> [knowledgeBaseId |-> kb_id,
                                               modelArn |-> "foundation-model"]]]

\* a call of query_knowledge_base as the service sees it, with its arguments
Request(kb_id, query_text, sid) ==
    [args |-> [kb_id |-> kb_id, query_text |-> query_text, session_id |-> sid],
     params |-> QueryParams(kb_id, query_text, sid)]

\* lines 220-222: the first query cell calls query_knowledge_base without a
\* session and keeps the session of the response
FirstQueryCell ==
    /\ requests = <<>>
    /\ \E sid \in SessionIds, answer \in KbAnswers :
           /\ requests' = <<Request("kb", "best practices for model governance", None)>>
           /\ kb_responses' = <<[sessionId |-> sid, text |-> answer]>>
           /\ session_id' = sid
    /\ UNCHANGED <<annotatorVars, toolVars, threadVars, agentVars>>

\* lines 233-234 and 246-247: a follow-up cell passes the notebook's
\* session_id; the service answers within that session
FollowUpCell ==
    /\ requests # <<>>
    /\ Len(requests) < MaxCalls
    /\ \E query_text \in FollowUpTexts, answer \in KbAnswers :
           LET request == Request("kb", query_text, session_id)
           IN /\ requests' = Append(requests, request)
              /\ kb_responses' =
                     Append(kb_responses,
                            [sessionId |-> IF HasKey(request.params, "sessionId")
                                           THEN request.params.sessionId
                                           ELSE CHOOSE sid \in SessionIds : TRUE,
                             text |-> answer])
    /\ UNCHANGED session_id
    /\ UNCHANGED <<annotatorVars, toolVars, threadVars, agentVars>>

NextQueries ==
    \/ FirstQueryCell
    \/ FollowUpCell

SpecQueries == InitTools /\ [][NextQueries]_vars

(* ------------------- vocabulary of the properties ---------------------- *)

\* the ten digit characters
DigitSet == {DigitChars[d] : d \in 1..10}

IsDigit(c) == c \in DigitSet

RECURSIVE DigitsEnd(_, _)
\* first position at or after i of s that holds no digit
DigitsEnd(s, i) == IF i <= Len(s) /\ IsDigit(s[i]) THEN DigitsEnd(s, i + 1) ELSE i

RECURSIVE ListEnd(_, _)
\* s reads  n, n, ..., n]  from position i: the position of that "]", else 0
ListEnd(s, i) ==
    LET j == DigitsEnd(s, i)
    IN IF j = i \/ j > Len(s) THEN 0
       ELSE IF s[j] = "]" THEN j
       ELSE IF s[j] = "," /\ j + 1 <= Len(s) /\ s[j + 1] = " " THEN ListEnd(s, j + 2)
       ELSE 0

\* a marker [], [n], [n, m], ... starts at position i of s: the position of
\* its "]", else 0
MarkerEnd(s, i) ==
    IF s[i] # "[" \/ i + 1 > Len(s) THEN 0
    ELSE IF s[i + 1] = "]" THEN i + 1
    ELSE ListEnd(s, i + 1)

RECURSIVE StripFrom(_, _)
StripFrom(s, i) ==
    IF i > Len(s) THEN <<>>
    ELSE LET e == MarkerEnd(s, i)
         IN IF e > 0 THEN StripFrom(s, e + 1) ELSE <<s[i]>> \o StripFrom(s, i + 1)

\* s with every marker substring removed, in one left-to-right pass
StripMarkers(s) == StripFrom(s, 1)

ContainsMarker(s) == \E i \in 1..Len(s) : MarkerEnd(s, i) > 0

ValidSpans(r) == \A k \in DOMAIN r.citations : r.citations[k].end <= Len(r.text)

NonDecreasingEnds(r) ==
    \A k \in DOMAIN r.citations :
        k > 1 => r.citations[k - 1].end <= r.citations[k].end

EndsWith(s, m) == Len(m) <= Len(s) /\ SubSeq(s, Len(s) - Len(m) + 1, Len(s)) = m

\* m occupies the 0-based indexes p .. p+len(m)-1 of s
MarkerAt(s, p, m) == p + Len(m) <= Len(s) /\ SubSeq(s, p + 1, p + Len(m)) = m

Min(a, b) == IF a <= b THEN a ELSE b

\* new is old with m inserted between its first p characters and the rest
InsertedAt(old, new, p, m) ==
    /\ p <= Len(old)
    /\ new = SubSeq(old, 1, p) \o m \o SubSeq(old, p + 1, Len(old))

DigitValue(c) == CHOOSE d \in 0..9 : DigitChars[d + 1] = c

RECURSIVE ParseNat(_)
\* the number written by the digits ds
ParseNat(ds) ==
    IF ds = <<>> THEN 0
    ELSE 10 * ParseNat(SubSeq(ds, 1, Len(ds) - 1)) + DigitValue(ds[Len(ds)])

\* the number between the brackets that open a reference line, -1 if the line
\* does not open with [digits]
LineNumber(line) ==
    LET j == DigitsEnd(line, 2)
    IN IF Len(line) >= 3 /\ line[1] = "[" /\ j > 2 /\ j <= Len(line) /\ line[j] = "]"
       THEN ParseNat(SubSeq(line, 2, j - 1))
       ELSE 0 - 1

\* the location on a reference line: what follows "[n]: "
LineUri(line) == line[DigitsEnd(line, 2) + 3]

RECURSIVE ParseList(_, _)
\* the numbers of the list  n, n, ..., n]  that m holds from position i
ParseList(m, i) ==
    IF i > Len(m) \/ m[i] = "]" THEN <<>>
    ELSE LET j == DigitsEnd(m, i)
         IN <<ParseNat(SubSeq(m, i, j - 1))>>
                \o (IF j <= Len(m) /\ m[j] = "," THEN ParseList(m, j + 2) ELSE <<>>)

\* the numbers listed in a marker
MarkerNumbers(m) == ParseList(m, 2)

RECURSIVE LastUsed(_, _)
\* the last number in the markers sp[1..k], 0 if they list none
LastUsed(sp, k) ==
    IF k = 0 THEN 0
    ELSE LET ns == MarkerNumbers(sp[k].marker)
         IN IF ns # <<>> THEN ns[Len(ns)] ELSE LastUsed(sp, k - 1)

RECURSIVE SumLens(_)
\* total length of the markers recorded in sp
SumLens(sp) == IF sp = <<>> THEN 0 ELSE Len(sp[1].marker) + SumLens(Tail(sp))

RECURSIVE FlatRefs(_)
\* the references of all citations, in citation order then reference order
FlatRefs(cits) ==
    IF cits = <<>> THEN <<>> ELSE cits[1].retrievedReferences \o FlatRefs(Tail(cits))

RECURSIVE TotalRefs(_)
TotalRefs(cits) ==
    IF cits = <<>> THEN 0 ELSE Len(cits[1].retrievedReferences) + TotalRefs(Tail(cits))

\* the running call is in the splice step of lines 203-206
AtSplice == pc = "for_reference" /\ n >= Len(citation.retrievedReferences)

(* ------------------------------ claims --------------------------------- *)

\* C1 as stated: for every answer and every list of citations with
\* 0 <= end <= len(answer), in any order, the annotated answer with all
\* markers removed is the original answer.
C1_RoundTripAnyInput ==
    (pc = "returned" /\ ValidSpans(response)) => StripMarkers(output) = response.text

\* C1 amended: when the answer itself contains no marker substring and the
\* citations' ends (0 <= end <= len(answer)) are non-decreasing in input
\* order, the annotated answer with all markers removed is the original answer.
C1_RoundTrip ==
    (/\ pc = "returned"
     /\ ValidSpans(response)
     /\ ~ContainsMarker(response.text)
     /\ NonDecreasingEnds(response))
        => StripMarkers(output) = response.text

C1_Witness ==
    /\ pc = "returned"
    /\ ValidSpans(response)
    /\ ~ContainsMarker(response.text)
    /\ NonDecreasingEnds(response)
    /\ Len(response.citations) = 2
    /\ Len(response.citations[2].retrievedReferences) = 2
    /\ Len(response.text) = 2
    /\ Len(output) > Len(response.text)
    /\ StripMarkers(output) = response.text

\* C2 as stated: a splice index past the end of the current string makes the
\* call fail instead of continuing to an annotated answer ("raised" is where
\* an exception leaving print_response would put the call).
C2_OutOfRangeRaises ==
    (\E k \in DOMAIN splices : splices[k].at > splices[k].len) => pc = "raised"

\* C2 amended: a splice index past the end of the current string raises
\* nothing: the marker is appended at the very end of the current string and
\* the loop goes on to the next citation.
C2_OutOfRangeAppends ==
    [][(AtSplice /\ citation_end + ref_offset > Len(output))
          => (pc' = "for_citation" /\ output' = output \o citation_string \o <<"]">>)]_vars

C2_Witness ==
    /\ pc = "returned"
    /\ \E k \in DOMAIN splices : splices[k].at > splices[k].len
    /\ EndsWith(output, splices[Len(splices)].marker)

\* C3: a citation whose end equals len(answer) is spliced without error, and
\* while it is the last citation processed its marker is the end of the output.
C3_EndAtLength ==
    (/\ pc \in {"for_citation", "for_reference", "returned"}
     /\ splices # <<>>
     /\ response.citations[Len(splices)].end = Len(response.text))
        => EndsWith(output, splices[Len(splices)].marker)

C3_Witness ==
    /\ pc = "returned"
    /\ Len(splices) = 2
    /\ response.citations[2].end = Len(response.text)
    /\ Len(response.text) = 2
    /\ Len(splices[2].marker) > 2
    /\ EndsWith(output, splices[2].marker)

\* C4: the reference lines are as many as the references of all citations,
\* line j carries the number j, and it is the line of the j-th reference in
\* citation order and then reference order.
C4_ReferenceCount ==
    pc = "returned" =>
        LET flat == FlatRefs(response.citations)
        IN /\ Len(references) = TotalRefs(response.citations)
           /\ Len(flat) = Len(references)
           /\ \A j \in DOMAIN references :
                  /\ LineNumber(references[j]) = j
                  /\ LineUri(references[j]) = flat[j].uri

C4_Witness ==
    /\ pc = "returned"
    /\ Len(response.citations) = 2
    /\ Len(references) = 3
    /\ LineNumber(references[3]) = 3
    /\ LineUri(references[1]) # LineUri(references[2])
    /\ LineUri(references[2]) # LineUri(references[3])

\* C5: the numbers in one citation's marker are consecutive and increasing,
\* and start one past the last number of the closest earlier citation that
\* has a reference (at 1 if there is none).
C5_Ordering ==
    \A k \in DOMAIN splices :
        LET ns == MarkerNumbers(splices[k].marker)
            last == LastUsed(splices, k - 1)
        IN /\ Len(ns) = Len(response.citations[k].retrievedReferences)
           /\ \A j \in DOMAIN ns : ns[j] = last + j

C5_Witness ==
    /\ pc = "returned"
    /\ Len(splices) = 2
    /\ MarkerNumbers(splices[1].marker) = <<1, 2>>
    /\ MarkerNumbers(splices[2].marker) = <<3, 4>>

\* the citation being or about to be processed has no reference
EmptyCitationAhead ==
    \/ /\ pc = "for_citation"
       /\ citation_i < Len(response.citations)
       /\ Len(response.citations[citation_i + 1].retrievedReferences) = 0
    \/ /\ pc = "for_reference"
       /\ Len(citation.retrievedReferences) = 0

\* C6: processing a citation without references changes neither the counter
\* nor the reference lines, splices the two characters [] at its splice point
\* and advances the offset by 2.
C6_EmptyReferences ==
    [][EmptyCitationAhead =>
          /\ ref_number' = ref_number
          /\ references' = references
          /\ pc = "for_reference" =>
                 /\ InsertedAt(output, output', Min(citation_end + ref_offset, Len(output)),
                               <<"[", "]">>)
                 /\ ref_offset' = ref_offset + 2
                 /\ pc' = "for_citation"]_vars

C6_Witness ==
    /\ pc = "returned"
    /\ Len(splices) = 2
    /\ Len(response.citations[1].retrievedReferences) = 0
    /\ splices[1].marker = <<"[", "]">>
    /\ splices[2].marker = <<"[", "1", "]">>
    /\ splices[2].at = response.citations[2].end + 3
    /\ Len(references) = 1

C8_SplicePointExact ==
    [][(AtSplice /\ ValidSpans(response)) =>
          LET m == citation_string \o <<"]">>
          IN /\ ref_offset = 1 + SumLens(splices)
             /\ InsertedAt(output, output', citation_end + 1 + SumLens(splices), m)
             /\ ref_offset' = ref_offset + Len(m)]_vars

\* C8 amended: the marker lands at that index or, when the index is past the
\* end of the current string, at the end of the current string.
C8_SplicePoint ==
    [][AtSplice =>
          LET m == citation_string \o <<"]">>
          IN /\ ref_offset = 1 + SumLens(splices)
             /\ InsertedAt(output, output',
                           Min(citation_end + 1 + SumLens(splices), Len(output)), m)
             /\ ref_offset' = ref_offset + Len(m)]_vars

C8_Witness ==
    /\ pc = "returned"
    /\ Len(splices) = 2
    /\ Len(splices[1].marker) = 6
    /\ splices[2].at = response.citations[2].end + 7
    /\ splices[2].at < splices[2].len
    /\ MarkerAt(output, splices[2].at, splices[2].marker)

\* C9 as stated: with one citation and end < len(answer), the first end
\* characters of the answer precede the marker.
C9_MarkerAtEnd ==
    (/\ pc = "returned"
     /\ Len(response.citations) = 1
     /\ response.citations[1].end < Len(response.text))
        => InsertedAt(response.text, output, response.citations[1].end, splices[1].marker)

\* C9 amended: with one citation and end < len(answer), the first end + 1
\* characters of the answer precede the marker.
C9_MarkerPastEnd ==
    (/\ pc = "returned"
     /\ Len(response.citations) = 1
     /\ response.citations[1].end < Len(response.text))
        => InsertedAt(response.text, output, response.citations[1].end + 1,
                      splices[1].marker)

C9_Witness ==
    /\ pc = "returned"
    /\ Len(response.citations) = 1
    /\ response.citations[1].end = 0
    /\ response.text = <<"a", "]">>
    /\ output = <<"a", "[", "1", "]", "]">>

\* C10: two calls on the same response display the same annotated answer
\* and the same reference lines, whatever calls come between them, and the
\* reference lines of every call start at number 1.
C10_Deterministic ==
    /\ \A c1, c2 \in DOMAIN inputs :
           inputs[c1] = inputs[c2] =>
               /\ console[2 * c1 - 1] = console[2 * c2 - 1]
               /\ console[2 * c1] = console[2 * c2]
    /\ \A c \in DOMAIN inputs :
           TotalRefs(inputs[c].citations) > 0 =>
               SubSeq(console[2 * c], 1, 3) = <<"[", "1", "]">>

C10_Witness ==
    /\ pc = "returned"
    /\ Len(inputs) = 3
    /\ inputs[1] = inputs[3]
    /\ inputs[2] # inputs[1]
    /\ TotalRefs(inputs[1].citations) = 2
    /\ TotalRefs(inputs[2].citations) = 1
    /\ console[5] = console[1]
    /\ console[6] = console[2]

\* C11: citations are processed in input order, never sorted: the k-th
\* splice is computed from the end of the k-th citation as listed, and every
\* number of a later citation's marker is higher than every number of an
\* earlier one's, whatever the order of their ends.
C11_InputOrder ==
    \A k \in DOMAIN splices :
        LET later == MarkerNumbers(splices[k].marker)
        IN  /\ splices[k].at =
                   response.citations[k].end + 1 + SumLens(SubSeq(splices, 1, k - 1))
            /\ Len(later) = Len(response.citations[k].retrievedReferences)
            /\ \A j \in 1..(k - 1) :
                   LET earlier == MarkerNumbers(splices[j].marker)
                   IN  \A a \in DOMAIN earlier :
                           \A b \in DOMAIN later : earlier[a] < later[b]

C11_Witness ==
    /\ pc = "returned"
    /\ Len(splices) = 2
    /\ response.citations[2].end < response.citations[1].end
    /\ MarkerNumbers(splices[1].marker) = <<1>>
    /\ MarkerNumbers(splices[2].marker) = <<2, 3>>
    /\ splices[2].at = response.citations[2].end + 4

\* the response and the reference line of the first documented example
Scenario1 ==
    [text |-> RiskText,
     citations |-> <<[end |-> 19,
                      retrievedReferences |->
                          <<[uri |-> "s3://bucket/doc.pdf", page |-> Float(30)]>>]>>]

Scenario1Line ==
    <<"[", "1", "]", ":", " ", "s3://bucket/doc.pdf", " ", "(", "p", "a", "g", "e", " ", "3", ")">>

\* C12: on the first documented example the call raises nothing and shows
\* "Risk is important.[1]" and the one line "[1]: s3://bucket/doc.pdf (page 3)".
C12_Scenario1 ==
    response = Scenario1 =>
        /\ pc # "raised"
        /\ pc = "returned" =>
               /\ output = RiskText \o <<"[", "1", "]">>
               /\ references = <<Scenario1Line>>
               /\ console = <<RiskText \o <<"[", "1", "]">>, Scenario1Line>>

C12_Witness ==
    /\ response = Scenario1
    /\ pc = "returned"
    /\ output = RiskText \o <<"[", "1", "]">>
    /\ console[2] = Scenario1Line

\* the response of the second documented example
Scenario2 ==
    LET ref == [uri |-> "s3://bucket/doc.pdf", page |-> Float(30)]
    IN [text |-> RiskText,
        citations |-> <<[end |-> 10, retrievedReferences |-> <<ref>>],
                        [end |-> 19, retrievedReferences |-> <<ref, ref>>]>>]

\* C13: on the second documented example the markers are [1] and [2, 3], the
\* three reference lines are numbered 1, 2, 3, the second splice index is
\* 19 + 1 + 3 and the second marker follows the intact first marker.
C13_Scenario2 ==
    (response = Scenario2 /\ pc = "returned") =>
        /\ splices[1].marker = <<"[", "1", "]">>
        /\ splices[2].marker = <<"[", "2", ",", " ", "3", "]">>
        /\ splices[2].at = 19 + 1 + 3
        /\ Len(references) = 3
        /\ \A j \in 1..3 : LineNumber(references[j]) = j
        /\ output = SubSeq(RiskText, 1, 11) \o <<"[", "1", "]">>
                        \o SubSeq(RiskText, 12, 18) \o <<"[", "2", ",", " ", "3", "]">>

C13_Witness ==
    /\ response = Scenario2
    /\ pc = "returned"
    /\ Len(splices) = 2
    /\ splices[2].at = 23
    /\ EndsWith(output, <<".", "[", "2", ",", " ", "3", "]">>)

\* t tenths truncated toward zero to a whole number
TruncTowardZero(t) == IF t >= 0 THEN t \div 10 ELSE 0 - ((0 - t) \div 10)

\* C14: every reference the loop has taken has its line
\* "[<n>]: <uri> (page <page>)" with its number, its location and its page
\* number truncated toward zero, whatever the type of the page-number
\* attribute (float or number-like string, whole or fractional).
C14_TruncatedPages ==
    /\ pc # "raised"
    /\ Len(references) = ref_number
    /\ \A j \in DOMAIN references :
           LET ref == FlatRefs(response.citations)[j]
           IN references[j] =
                  <<"[">> \o NatStr(j) \o <<"]", ":", " ", ref.uri, " ", "(", "p", "a", "g", "e", " ">>
                      \o IntStr(TruncTowardZero(ref.page.tenths)) \o <<")">>

\* C15: get_ticker_data raises ValueError exactly for the sampling values
\* other than the documented "daily", "weekly" and "monthly".
C15_DocumentedSamplings ==
    \A c \in DOMAIN tool_calls :
        tool_calls[c].tool = "get_ticker_data" =>
            (tool_calls[c].raised = "ValueError"
                <=> tool_calls[c].sampling \notin {"daily", "weekly", "monthly"})

\* C16: get_fred_data raises ValueError exactly for the sampling values other
\* than "monthly", "quarterly" and "yearly", and returns its list of records
\* for these three.
C16_FredSamplings ==
    \A c \in DOMAIN tool_calls :
        tool_calls[c].tool = "get_fred_data" =>
            IF tool_calls[c].sampling \in {"monthly", "quarterly", "yearly"}
            THEN tool_calls[c].raised = "None" /\ tool_calls[c].returned = "list of records"
            ELSE tool_calls[c].raised = "ValueError" /\ tool_calls[c].returned = "None"

C16_Witness ==
    /\ Len(tool_calls) = 2
    /\ tool_calls[1].tool = "get_fred_data"
    /\ tool_calls[1].sampling = "yearly"
    /\ tool_calls[1].returned = "list of records"
    /\ tool_calls[2].tool = "get_fred_data"
    /\ tool_calls[2].sampling = "daily"
    /\ tool_calls[2].raised = "ValueError"

ExpectedMarker(first, count) ==
    <<"[">> \o Join(<<",", " ">>, [j \in 1..count |-> NatStr(first + j - 1)]) \o <<"]">>

\* C18: the marker of a citation is "[", its numbers in assignment order
\* separated by ", ", and "]"; the offset has grown by the markers' lengths.
C18_MarkerFormat ==
    pc \in {"for_citation", "for_reference", "returned"} =>
        /\ ref_offset = 1 + SumLens(splices)
        /\ \A k \in DOMAIN splices :
               splices[k].marker =
                   ExpectedMarker(TotalRefs(SubSeq(response.citations, 1, k - 1)) + 1,
                                  Len(response.citations[k].retrievedReferences))

C18_Witness ==
    /\ pc = "returned"
    /\ Len(splices) = 2
    /\ splices[1].marker = <<"[", "1", ",", " ", "2", "]">>
    /\ splices[2].marker = <<"[", "3", ",", " ", "4", "]">>
    /\ ref_offset = 13

\* C19: the counter always equals the number of reference lines, a step
\* that changes it adds exactly 1 and one line, and references to the same
\* source have lines of their own with increasing numbers.
C19_NoReuse ==
    /\ [](/\ ref_number = Len(references)
          /\ \A i, j \in DOMAIN references :
                 i < j => /\ LineNumber(references[i]) < LineNumber(references[j])
                          /\ references[i] # references[j])
    /\ [][/\ ref_number' # ref_number =>
                 (ref_number' = ref_number + 1 /\ Len(references') = Len(references) + 1)
          /\ (pc = "for_reference" /\ n < Len(citation.retrievedReferences)) =>
                 ref_number' = ref_number + 1]_vars

C19_Witness ==
    /\ pc = "returned"
    /\ Len(response.citations) = 2
    /\ response.citations[1].retrievedReferences = response.citations[2].retrievedReferences
    /\ Len(references) = 4
    /\ ref_number = 4
    /\ LineUri(references[1]) = LineUri(references[4])

\* C20: the offset is 1 before the first citation, never decreases during a
\* call and grows by at least 2 with every citation spliced, whatever the
\* order of the span ends.
C20_OffsetGrows ==
    /\ []((pc = "for_citation" /\ citation_i = 0) => ref_offset = 1)
    /\ [][pc # "call" =>
              /\ ref_offset' >= ref_offset
              /\ AtSplice => ref_offset' >= ref_offset + 2]_vars

C20_Witness ==
    /\ pc = "returned"
    /\ Len(splices) = 2
    /\ response.citations[2].end < response.citations[1].end
    /\ splices[1].marker = <<"[", "]">>
    /\ ref_offset = 1 + 2 + Len(splices[2].marker)
    /\ Len(splices[2].marker) > 2

\* C21: one splice leaves the characters before the splice point where they
\* were, puts the marker's characters next to each other from the splice
\* point on, and moves every character from the splice point on to the right
\* by the marker's length: none is dropped or changed.
C21_SpliceFrame ==
    [][AtSplice =>
          LET m == citation_string \o <<"]">>
              p == Min(citation_end + ref_offset, Len(output))
          IN /\ Len(output') = Len(output) + Len(m)
             /\ \A i \in 1..p : output'[i] = output[i]
             /\ \A i \in 1..Len(m) : output'[p + i] = m[i]
             /\ \A i \in (p + 1)..Len(output) : output'[i + Len(m)] = output[i]]_vars

C21_Witness ==
    /\ pc = "returned"
    /\ response.text = <<"a", "a">>
    /\ Len(splices) = 1
    /\ splices[1].at = 1
    /\ output = <<"a", "[", "1", "]", "a">>

\* the index at which the marker of the k-th citation starts when no marker
\* is split: its span end plus 1, or the end of the answer, plus the lengths
\* of the markers before it
Start(k) ==
    Min(response.citations[k].end + 1, Len(response.text))
        + SumLens(SubSeq(splices, 1, k - 1))

\* C22: when the second citation's span end is lower than the first's and
\* its splice index (its end + 1 + the first marker's length) falls after
\* the first character and before the end of the first marker, the second
\* marker is spliced inside the first: the first marker is cut in two around
\* it and no longer stands at its place in one piece.
C22_SplicedInside ==
    Len(splices) = 2 =>
        LET text == response.text
            m1 == ExpectedMarker(1, Len(response.citations[1].retrievedReferences))
            m2 == splices[2].marker
            p1 == Min(response.citations[1].end + 1, Len(text))
            p2 == response.citations[2].end + 1 + Len(m1)
            cut == p2 - p1
        IN (p1 < p2 /\ p2 < p1 + Len(m1)) =>
               /\ response.citations[2].end < response.citations[1].end
               /\ splices[2].at = p2
               /\ output = SubSeq(text, 1, p1) \o SubSeq(m1, 1, cut) \o m2
                               \o SubSeq(m1, cut + 1, Len(m1))
                               \o SubSeq(text, p1 + 1, Len(text))
               /\ ~MarkerAt(output, p1, m1)

\* s occurs somewhere in t as a contiguous substring
Occurs(s, t) == \E p \in 0..Len(t) : MarkerAt(t, p, s)

C22_Witness ==
    /\ pc = "returned"
    /\ Len(response.citations) = 2
    /\ response.text = <<"a", "b", "c">>
    /\ response.citations[1].end = 2
    /\ response.citations[2].end = 1
    /\ output = <<"a", "b", "c", "[", "1", "[", "2", "]", "]">>
    /\ ~Occurs(splices[1].marker, output)

\* C25: at any point of a call the current string is as long as the answer
\* plus the markers spliced so far, which is the answer's length plus the
\* offset minus 1, whatever the span ends.
C25_Length ==
    pc \in {"for_citation", "for_reference", "returned"} =>
        /\ Len(output) = Len(response.text) + SumLens(splices)
        /\ Len(output) = Len(response.text) + (ref_offset - 1)

C25_Witness ==
    /\ pc = "returned"
    /\ Len(response.citations) = 2
    /\ Len(splices) = 2
    /\ Len(response.text) = 1
    /\ response.citations[1].end = 2
    /\ response.citations[2].end = 0
    /\ Len(output) = 9
    /\ ref_offset = 9

\* C26: when the span ends do not decrease in input order, every marker
\* spliced so far stands in one piece in the current string, after the
\* marker spliced before it, and each splice index is at or past the end of
\* the markers already there.
C26_IntactMarkers ==
    NonDecreasingEnds(response) =>
        \A k \in DOMAIN splices :
            /\ MarkerAt(output, Start(k), splices[k].marker)
            /\ Min(splices[k].at, splices[k].len) = Start(k)
            /\ k > 1 => Start(k - 1) + Len(splices[k - 1].marker) <= Start(k)

C26_Witness ==
    /\ pc = "returned"
    /\ Len(response.citations) = 2
    /\ response.text = <<"a", "b", "c">>
    /\ response.citations[1].end = 0
    /\ response.citations[2].end = 1
    /\ output = <<"a", "[", "1", "]", "b", "[", "2", ",", " ", "3", "]", "c">>

\* C27: once a call of run_python_code has ended, by returning or by letting
\* an exception out, the temporary file it created is gone, whether the
\* child exited with status zero, exited with another status or could not
\* be run; the only temporary file that exists is that of the running call.
C27_TempFileRemoved ==
    /\ \A k \in DOMAIN code_runs : k \notin tmp_files
    /\ run.pc = "idle" => tmp_files = {}
    /\ run.pc # "idle" => tmp_files = {run.name}

C27_Witness ==
    /\ run.pc = "idle"
    /\ Len(code_runs) = 2
    /\ code_runs[1].kind = "raise"
    /\ code_runs[2].kind = "return"
    /\ code_runs[2].outcome.exit = 1
    /\ tmp_files = {}

RECURSIVE TracesOf(_)
\* the trace payloads of the events of a stream that carry a trace, in
\* stream order
TracesOf(stream) ==
    IF stream = <<>> THEN <<>>
    ELSE (IF HasKey(stream[1], "trace") THEN <<stream[1].trace>> ELSE <<>>)
             \o TracesOf(Tail(stream))

\* C24: when the stream has been consumed to its end without an exception,
\* trace_events holds the trace of every event with a trace that the stream
\* delivered, each once, in stream order.
C24_TraceCapture ==
    agent_pc = "done" =>
        /\ event_i = Len(event_stream)
        /\ trace_events = TracesOf(event_stream)

C24_Witness ==
    /\ agent_pc = "done"
    /\ Len(event_stream) = 3
    /\ HasKey(event_stream[2], "chunk")
    /\ trace_events = <<"postProcessingTrace", "orchestrationTrace">>

\* C29: an event with neither a chunk nor a trace ends the consumption with
\* an Exception whose first argument is "unexpected event."; it is the last
\* event taken, and trace_events holds the traces of the events before it.
C29_UnexpectedEvent ==
    \A k \in 1..event_i :
        (~HasKey(event_stream[k], "chunk") /\ ~HasKey(event_stream[k], "trace")
            /\ event_stream[k] # StreamError)
            => /\ agent_pc = "raised"
               /\ k = event_i
               /\ agent_exc.type = "Exception"
               /\ agent_exc.args[1] = "unexpected event."
               /\ trace_events = TracesOf(SubSeq(event_stream, 1, k - 1))

C29_Witness ==
    /\ agent_pc = "raised"
    /\ Len(event_stream) = 3
    /\ event_i = 2
    /\ event_stream[1] = [trace |-> "orchestrationTrace"]
    /\ event_stream[2] = [returnControl |-> "invocationInputs"]
    /\ event_stream[3] = [trace |-> "postProcessingTrace"]
    /\ trace_events = <<"orchestrationTrace">>

\* C28: a request of query_knowledge_base holds a sessionId exactly when the
\* session_id argument is not None, and then that value; the first query of
\* the notebook holds none and every later query holds the sessionId of the
\* first response.
C28_SessionId ==
    \A i \in DOMAIN requests :
        /\ HasKey(requests[i].params, "sessionId") <=> requests[i].args.session_id # None
        /\ HasKey(requests[i].params, "sessionId") =>
               requests[i].params.sessionId = requests[i].args.session_id
        /\ i = 1 => ~HasKey(requests[i].params, "sessionId")
        /\ i > 1 => /\ HasKey(requests[i].params, "sessionId")
                    /\ requests[i].params.sessionId = kb_responses[1].sessionId

C28_Witness ==
    /\ Len(requests) = 3
    /\ kb_responses[1].sessionId = <<"s", "2">>
    /\ DOMAIN requests[1].params = {"input", "retrieveAndGenerateConfiguration"}
    /\ requests[2].params.sessionId = <<"s", "2">>
    /\ requests[3].params.sessionId = <<"s", "2">>
    /\ requests[2].params.input # requests[3].params.input

RECURSIVE Trajectory(_)
\* the locals a call goes through, from f on, when nothing else runs
Trajectory(f) ==
    IF f.pc \in {"returned", "raised"} THEN {f}
    ELSE {f} \cup Trajectory(FrameStep(f))

\* the locals of a call of print_response(r) that runs alone, from its start
Alone(r) == Trajectory([IdleFrame EXCEPT !.response = r, !.pc = "call"])

\* the locals at the end of that call
AloneResult(r) == CHOOSE f \in Alone(r) : f.pc \in {"returned", "raised"}

\* C23: whatever the interleaving of the steps of two invocations, each goes
\* through the locals it goes through when it runs alone, and ends with the
\* same annotated answer and the same reference lines.
C23_NoInterference ==
    \A t \in Threads :
        frames[t].pc # "idle" =>
            /\ frames[t] \in Alone(frames[t].response)
            /\ frames[t].pc = "returned" =>
                   /\ frames[t].output = AloneResult(frames[t].response).output
                   /\ frames[t].references = AloneResult(frames[t].response).references

C23_Witness ==
    /\ frames[1].pc = "returned"
    /\ frames[2].pc = "returned"
    /\ Len(frames[1].response.citations) = 2
    /\ Len(frames[2].response.citations) = 1
    /\ frames[1].output = <<"a", "b", "c", "[", "1", ",", " ", "2", "[", "3", "]", "]">>
    /\ Len(frames[1].references) = 3
    /\ frames[2].output = <<"a", "b", "[", "1", "]", "c">>
    /\ console = <<frames[1].output, frames[2].output,
                   frames[2].reference_str, frames[1].reference_str>>

====
